---- MODULE Spec2Model ----
(***************************************************************************)
(* Model of the Revolution Idle Zodiac Calculator (zodiac_calculator.py):  *)
(* the interactive session of ZodiacCalculator.run, the five basic         *)
(* formulas, and the rarity weight / chance tables.                        *)
(*                                                                         *)
(* Python floats are modelled as decimal floating point numbers with a     *)
(* six digit mantissa and the exponent range of an IEEE double: a finite   *)
(* value is m * 10^e with m = 0 or 100000 <= |m| <= 999999.  Besides       *)
(* finite values a number can be an infinity, a NaN, a complex number      *)
(* (what a negative base raised to a fractional power evaluates to), None, *)
(* or a raised exception, which every operation passes on unchanged.       *)
(***************************************************************************)
EXTENDS Integers, Sequences, FiniteSets, TLC

----------------------------------------------------------------------------
(* Number representation *)

Fin(m, e) == [k |-> "fin", m |-> m, e |-> e]

Special(kind) == [k |-> kind, m |-> 0, e |-> 0]

Zero == [k |-> "fin", m |-> 0, e |-> 0]

One == [k |-> "fin", m |-> 100000, e |-> -5]

Inf(s) == [k |-> "inf", m |-> s, e |-> 0]

NaN == [k |-> "nan", m |-> 0, e |-> 0]

Cplx == [k |-> "cplx", m |-> 0, e |-> 0]

None == [k |-> "None", m |-> 0, e |-> 0]

Raise(x) == [k |-> x, m |-> 0, e |-> 0]

Exceptions == {"ValueError", "OverflowError", "TypeError", "ZeroDivisionError",
               "AssertionError", "EOFError", "KeyboardInterrupt", "SystemError"}

IsExc(a) == a.k \in Exceptions

Abs(n) == IF n < 0 THEN -n ELSE n

Sgn(n) == IF n < 0 THEN -1 ELSE IF n > 0 THEN 1 ELSE 0

Pow10(k) == <<1, 10, 100, 1000, 10000, 100000, 1000000, 10000000,
              100000000, 1000000000>>[k + 1]

NDigits(n) ==
  IF n < 10 THEN 1 ELSE IF n < 100 THEN 2 ELSE IF n < 1000 THEN 3
  ELSE IF n < 10000 THEN 4 ELSE IF n < 100000 THEN 5
  ELSE IF n < 1000000 THEN 6 ELSE IF n < 10000000 THEN 7
  ELSE IF n < 100000000 THEN 8 ELSE IF n < 1000000000 THEN 9 ELSE 10

\* The double range: a magnitude above 1.79769e308 is out of range ("over",
\* with the sign in m), one below 1e-324 is flushed to zero.
Range(m, e) ==
  IF e + 5 > 308 \/ (e + 5 = 308 /\ Abs(m) > 179769) THEN [k |-> "over", m |-> Sgn(m), e |-> 0]
  ELSE IF e + 5 < -324 THEN Zero
  ELSE [k |-> "fin", m |-> m, e |-> e]

\* s * r * 10^e for a mantissa r already rounded to 100000..1000000
Carried(s, r, e) ==
  Range(s * (IF r = 1000000 THEN 100000 ELSE r), IF r = 1000000 THEN e + 1 ELSE e)

\* s * a * 10^e for a > 0 of d digits, rounded to six digits, half up
Rounded(s, a, d, e) ==
  Carried(s,
          IF d <= 6 THEN a * Pow10(6 - d)
          ELSE (a + Pow10(d - 6) \div 2) \div Pow10(d - 6),
          e + d - 6)

\* Round the integer m (times 10^e) to six significant digits.
Norm(m, e) ==
  IF m = 0 THEN Zero ELSE Rounded(Sgn(m), Abs(m), NDigits(Abs(m)), e)

\* float arithmetic overflows silently to an infinity
Lift(r) == IF r.k = "over" THEN Inf(r.m) ELSE r

\* the float of the decimal literal n / 10^s and of the int literal n (n > 0)
Dec(n, s) == [k |-> "fin", m |-> n * Pow10(6 - NDigits(n)), e |-> NDigits(n) - 6 - s]

Num(n) == [k |-> "fin", m |-> n * Pow10(6 - NDigits(n)), e |-> NDigits(n) - 6]

IsReal(a) == a.k \in {"fin", "inf", "nan"}

----------------------------------------------------------------------------
(* float operators *)

Neg(a) ==
  IF a.k \in {"fin", "inf"} THEN [a EXCEPT !.m = -a.m] ELSE a

AbsF(a) ==
  IF a.k \in {"fin", "inf"} THEN [a EXCEPT !.m = Abs(a.m)] ELSE a

\* the product of the mantissas x and y, without its last three digits
MulMant(x, y) == (x \div 1000) * y + ((x % 1000) * y) \div 1000

MulFin(a, b) ==
  Norm(Sgn(a.m) * Sgn(b.m) * MulMant(Abs(a.m), Abs(b.m)), a.e + b.e + 3)

Mul(a, b) ==
  IF IsExc(a) THEN a
  ELSE IF IsExc(b) THEN b
  ELSE IF a.k = "None" \/ b.k = "None" THEN Raise("TypeError")
  ELSE IF a.k = "cplx" \/ b.k = "cplx" THEN Cplx
  ELSE IF a.k = "nan" \/ b.k = "nan" THEN NaN
  ELSE IF a.k = "inf" \/ b.k = "inf"
       THEN IF a.m = 0 \/ b.m = 0 THEN NaN ELSE Inf(Sgn(a.m) * Sgn(b.m))
  ELSE Lift(MulFin(a, b))

\* hi + lo for hi.e - lo.e = d >= 0, both non-zero
AddAligned(hi, lo, d) ==
  IF d > 9 THEN hi
  ELSE Norm(IF d <= 3 THEN hi.m * Pow10(d) + lo.m
            ELSE hi.m * 1000 + Sgn(lo.m) * (Abs(lo.m) \div Pow10(d - 3)),
            IF d <= 3 THEN lo.e ELSE hi.e - 3)

AddFin(a, b) ==
  IF a.m = 0 THEN b
  ELSE IF b.m = 0 THEN a
  ELSE AddAligned(IF a.e >= b.e THEN a ELSE b, IF a.e >= b.e THEN b ELSE a, Abs(a.e - b.e))

Add(a, b) ==
  IF IsExc(a) THEN a
  ELSE IF IsExc(b) THEN b
  ELSE IF a.k = "None" \/ b.k = "None" THEN Raise("TypeError")
  ELSE IF a.k = "cplx" \/ b.k = "cplx" THEN Cplx
  ELSE IF a.k = "nan" \/ b.k = "nan" THEN NaN
  ELSE IF a.k = "inf" /\ b.k = "inf" THEN IF a.m = b.m THEN a ELSE NaN
  ELSE IF a.k = "inf" THEN a
  ELSE IF b.k = "inf" THEN b
  ELSE Lift(AddFin(a, b))

Sub(a, b) == Add(a, Neg(b))

\* six or seven digits of x / y by long division
DivMant(x, y) == ((x * 1000) \div y) * 1000 + (((x * 1000) % y) * 1000) \div y

DivFin(a, b) ==
  Norm(Sgn(a.m) * Sgn(b.m) * DivMant(Abs(a.m), Abs(b.m)), a.e - b.e - 6)

Div(a, b) ==
  IF IsExc(a) THEN a
  ELSE IF IsExc(b) THEN b
  ELSE IF a.k = "None" \/ b.k = "None" THEN Raise("TypeError")
  ELSE IF b.k = "fin" /\ b.m = 0 THEN Raise("ZeroDivisionError")
  ELSE IF a.k = "cplx" \/ b.k = "cplx" THEN Cplx
  ELSE IF a.k = "nan" \/ b.k = "nan" THEN NaN
  ELSE IF a.k = "inf" THEN IF b.k = "inf" THEN NaN ELSE Inf(a.m * Sgn(b.m))
  ELSE IF b.k = "inf" THEN Zero
  ELSE IF a.m = 0 THEN Zero
  ELSE Lift(DivFin(a, b))

\* a < b for real operands (always false when one of them is a NaN); finite
\* values compare by sign, then exponent, then mantissa
Less(a, b) ==
  IF a.k = "nan" \/ b.k = "nan" THEN FALSE
  ELSE IF a.k = "inf" THEN a.m < 0 /\ ~(b.k = "inf" /\ b.m < 0)
  ELSE IF b.k = "inf" THEN b.m > 0
  ELSE IF Sgn(a.m) # Sgn(b.m) THEN a.m < b.m
  ELSE IF a.m = 0 THEN FALSE
  ELSE IF a.e # b.e THEN (IF a.m > 0 THEN a.e < b.e ELSE a.e > b.e)
  ELSE a.m < b.m

\* a == b for real operands
Eq(a, b) == a.k # "nan" /\ a = b

Leq(a, b) == Less(a, b) \/ Eq(a, b)

----------------------------------------------------------------------------
(* math.log10 and the float power operator *)

\* 10^6 * log10(t / 10) for t = 10 .. 99
Log10Coarse == <<0, 41393, 79181, 113943, 146128, 176091, 204120, 230449, 255273, 278754,
                 301030, 322219, 342423, 361728, 380211, 397940, 414973, 431364, 447158, 462398,
                 477121, 491362, 505150, 518514, 531479, 544068, 556303, 568202, 579784, 591065,
                 602060, 612784, 623249, 633468, 643453, 653213, 662758, 672098, 681241, 690196,
                 698970, 707570, 716003, 724276, 732394, 740363, 748188, 755875, 763428, 770852,
                 778151, 785330, 792392, 799341, 806180, 812913, 819544, 826075, 832509, 838849,
                 845098, 851258, 857332, 863323, 869232, 875061, 880814, 886491, 892095, 897627,
                 903090, 908485, 913814, 919078, 924279, 929419, 934498, 939519, 944483, 949390,
                 954243, 959041, 963788, 968483, 973128, 977724, 982271, 986772, 991226, 995635>>

\* 10^6 * log10(1 + j / 100) for j = 0 .. 9
Log10Fine == <<0, 4321, 8600, 12837, 17033, 21189, 25306, 29384, 33424, 37426>>

\* 10^6 * log10(v / 10^6) for 10^6 <= v < 1.01 * 10^6, by the series of ln(1 + x)
Log10Near(v) ==
  (((v - 1000000) - ((v - 1000000) * (v - 1000000)) \div 2000000) * 4343) \div 10000

\* 10^6 * log10(r / 10^6) for 10^6 <= r < 1.1 * 10^6: split off the second digit
Log10Ratio(r) ==
  Log10Fine[(r - 1000000) \div 10000 + 1]
    + Log10Near((r * 100) \div (100 + (r - 1000000) \div 10000))

\* 10^6 * log10(y / 10^5) for a mantissa 10^5 <= y < 10^6: split off the two
\* leading digits
Log10Mant(y) ==
  Log10Coarse[y \div 10000 - 9] + Log10Ratio((y * 100) \div (y \div 10000))

\* log10 of a finite a > 0: the exponent plus the logarithm of the mantissa
Log10Fin(a) == Norm((a.e + 5) * 1000000 + Log10Mant(a.m), -6)

Log10(a) ==
  IF IsExc(a) THEN a
  ELSE IF a.k \in {"None", "cplx"} THEN Raise("TypeError")
  ELSE IF a.k = "nan" THEN NaN
  ELSE IF a.k = "inf" THEN IF a.m > 0 THEN a ELSE Raise("ValueError")
  ELSE IF a.m <= 0 THEN Raise("ValueError")
  ELSE Log10Fin(a)

\* mantissas of 10^(d / 10) and of 10^(d / 100) for d = 0 .. 9
Exp10Tenth == <<100000, 125893, 158489, 199526, 251189, 316228, 398107, 501187, 630957, 794328>>

Exp10Hundredth == <<100000, 102329, 104713, 107152, 109648, 112202, 114815, 117490, 120226, 123027>>

\* mantissa of 10^(g / 10^5) for 0 <= g < 1000, by the series of exp
Exp10Near(g) ==
  100000 + ((g * 230259) \div 10000
            + (((g * 230259) \div 10000) * ((g * 230259) \div 10000)) \div 2000000
            + 5) \div 10

\* 10^7 * 10^(f / 10^5) for 0 <= f < 10^5, digit by digit
Exp10Mant(f) ==
  MulMant(MulMant(Exp10Tenth[f \div 10000 + 1], Exp10Hundredth[((f \div 1000) % 10) + 1]) \div 100,
          Exp10Near(f % 1000))

\* floor(n / d) for d > 0
FloorDiv(n, d) == IF n >= 0 THEN n \div d ELSE -((-n + d - 1) \div d)

\* 10^(zfix / 10^5): the fraction gives the mantissa, the integer part moves
\* the exponent
Exp10Fix(zfix) ==
  Norm(Exp10Mant(zfix - FloorDiv(zfix, 100000) * 100000), FloorDiv(zfix, 100000) - 7)

\* 10^z for a real z (or an out-of-range product); "over" when the result is
\* out of the double range
Exp10(z) ==
  IF z.k = "nan" THEN NaN
  ELSE IF z.k \in {"inf", "over"} \/ (z.m # 0 /\ z.e + 5 >= 3)
       THEN IF z.m > 0 THEN [k |-> "over", m |-> 1, e |-> 0] ELSE Zero
  ELSE IF z.e + 5 < -9 THEN One
  ELSE Exp10Fix(IF z.e + 5 >= 0 THEN z.m * Pow10(z.e + 5)
                ELSE FloorDiv(z.m + Pow10(-(z.e + 5)) \div 2, Pow10(-(z.e + 5))))

IsInteger(b) ==
  b.k = "fin" /\ (b.e >= 0 \/ (b.e >= -5 /\ Abs(b.m) % Pow10(-b.e) = 0))

IsOdd(b) ==
  IsInteger(b) /\ b.e <= 0 /\ (Abs(b.m) \div Pow10(-b.e)) % 2 = 1

\* a ** b for finite a > 0 and finite b: 10^(b * log10(a)); OverflowError when
\* the result is out of range
Overflowing(r) == IF r.k = "over" THEN Raise("OverflowError") ELSE r

PowPos(a, b) == Overflowing(Exp10(MulFin(b, Log10Fin(a))))

\* the sign of a ** b for a < 0 and an integer b
Signed(r, negative) == IF negative THEN Neg(r) ELSE r

\* a ** b (float.__pow__)
Pow(a, b) ==
  IF IsExc(a) THEN a
  ELSE IF IsExc(b) THEN b
  ELSE IF a.k = "None" \/ b.k = "None" THEN Raise("TypeError")
  ELSE IF a.k = "cplx" \/ b.k = "cplx" THEN Cplx
  ELSE IF b.k = "fin" /\ b.m = 0 THEN One
  ELSE IF a.k = "nan" THEN NaN
  ELSE IF b.k = "nan" THEN IF a = One THEN One ELSE NaN
  ELSE IF b.k = "inf"
       THEN IF AbsF(a) = One THEN One
            ELSE IF (b.m > 0) = (a.k = "inf" \/ Less(One, AbsF(a))) THEN Inf(1) ELSE Zero
  ELSE IF a.k = "inf"
       THEN IF b.m > 0 THEN (IF a.m < 0 /\ IsOdd(b) THEN Inf(-1) ELSE Inf(1)) ELSE Zero
  ELSE IF a.m = 0 THEN IF b.m < 0 THEN Raise("ZeroDivisionError") ELSE Zero
  ELSE IF a.m < 0 /\ ~IsInteger(b) THEN Cplx
  ELSE IF AbsF(a) = One THEN (IF a.m < 0 /\ IsOdd(b) THEN a ELSE One)
  ELSE Signed(PowPos(AbsF(a), b), a.m < 0 /\ IsOdd(b))

\* max(0, x): x when x > 0, else the first argument
Max0(x) ==
  IF IsExc(x) THEN x
  ELSE IF x.k \in {"None", "cplx"} THEN Raise("TypeError")
  ELSE IF Less(Zero, x) THEN x ELSE Zero

----------------------------------------------------------------------------
(* Text: a line of input is a sequence of one-character strings *)

Digits == {"0", "1", "2", "3", "4", "5", "6", "7", "8", "9"}

DigitVal(c) ==
  CASE c = "0" -> 0 [] c = "1" -> 1 [] c = "2" -> 2 [] c = "3" -> 3 [] c = "4" -> 4
    [] c = "5" -> 5 [] c = "6" -> 6 [] c = "7" -> 7 [] c = "8" -> 8 [] c = "9" -> 9

UpperCase == <<"A", "B", "C", "D", "E", "F", "G", "H", "I", "J", "K", "L", "M",
               "N", "O", "P", "Q", "R", "S", "T", "U", "V", "W", "X", "Y", "Z">>

LowerCase == <<"a", "b", "c", "d", "e", "f", "g", "h", "i", "j", "k", "l", "m",
               "n", "o", "p", "q", "r", "s", "t", "u", "v", "w", "x", "y", "z">>

LowerChar(c) ==
  IF \E i \in 1..26 : UpperCase[i] = c
  THEN LowerCase[CHOOSE i \in 1..26 : UpperCase[i] = c]
  ELSE c

\* str.lower()
Lower(s) == [i \in 1..Len(s) |-> LowerChar(s[i])]

Whitespace == {" ", "\t"}

\* str.strip(): drop the leading and the trailing whitespace
RECURSIVE Strip(_)
Strip(s) ==
  IF s = <<>> THEN s
  ELSE IF s[1] \in Whitespace THEN Strip(Tail(s))
  ELSE IF s[Len(s)] \in Whitespace THEN Strip(SubSeq(s, 1, Len(s) - 1))
  ELSE s

\* the first index from i on that does not hold a digit
RECURSIVE DigitsEnd(_, _)
DigitsEnd(s, i) ==
  IF i <= Len(s) /\ s[i] \in Digits THEN DigitsEnd(s, i + 1) ELSE i

\* the value of the digits s[i..j-1]
RECURSIVE DigitsVal(_, _, _, _)
DigitsVal(s, i, j, acc) ==
  IF i >= j THEN acc ELSE DigitsVal(s, i + 1, j, 10 * acc + DigitVal(s[i]))

\* float(s) for a stripped, non-empty s: an optional sign, then inf, infinity,
\* nan, or digits with an optional point and an optional exponent; anything
\* else raises ValueError.
ParseFloat(s) ==
  LET signed == s # <<>> /\ s[1] \in {"+", "-"}
      sg     == IF signed /\ s[1] = "-" THEN -1 ELSE 1
      i0     == IF signed THEN 2 ELSE 1
      word   == Lower(SubSeq(s, i0, Len(s)))
      i1     == DigitsEnd(s, i0)
      point  == i1 <= Len(s) /\ s[i1] = "."
      i2     == IF point THEN DigitsEnd(s, i1 + 1) ELSE i1
      nfrac  == IF point THEN i2 - (i1 + 1) ELSE 0
      hasExp == i2 <= Len(s) /\ s[i2] \in {"e", "E"}
      esign  == hasExp /\ i2 + 1 <= Len(s) /\ s[i2 + 1] \in {"+", "-"}
      i3     == IF esign THEN i2 + 2 ELSE i2 + 1
      i4     == IF hasExp THEN DigitsEnd(s, i3) ELSE i2
      ex     == IF hasExp
                THEN (IF esign /\ s[i2 + 1] = "-" THEN -1 ELSE 1) * DigitsVal(s, i3, i4, 0)
                ELSE 0
      mant   == DigitsVal(s, i0, i1, 0) * Pow10(nfrac) + DigitsVal(s, i1 + 1, i2, 0)
  IN  IF word \in {<<"i", "n", "f">>, <<"i", "n", "f", "i", "n", "i", "t", "y">>} THEN Inf(sg)
      ELSE IF word = <<"n", "a", "n">> THEN NaN
      ELSE IF (i1 - i0) + nfrac = 0 THEN Raise("ValueError")
      ELSE IF hasExp /\ i4 = i3 THEN Raise("ValueError")
      ELSE IF i4 # Len(s) + 1 THEN Raise("ValueError")
      ELSE Lift(Norm(sg * mant, ex - nfrac))

----------------------------------------------------------------------------
(* ZodiacCalculator: the five optional inputs and the basic formulas *)

FieldOrder == <<"zodiac_rarity", "zodiac_quality", "zodiac_level", "luck", "immo_number">>

Fields == {FieldOrder[i] : i \in 1..Len(FieldOrder)}

\* __init__, and the reset at the end of a round
NoInputs == [f \in Fields |-> None]

\* variant of _has_required_inputs (any in place of all): C4 must tell it apart
AnyRequiredInput(self, required_fields) ==
  \E field \in required_fields : self[field] # None

_has_required_inputs(self, required_fields) ==
  \A field \in required_fields : self[field] # None

\* except (ValueError, OverflowError): log the error and return None
Caught == {"ValueError", "OverflowError"}

OrNone(v) == IF v.k \in Caught THEN None ELSE v

\* variant of SalePriceFormula (rarity_mult from rarity > 9): C9 must tell it apart
SalePriceFormulaAbove9(self) ==
  LET rarity_mult == IF Less(Num(9), self.zodiac_rarity) THEN Num(2) ELSE One
      level_mult  == IF Leq(Num(100), self.zodiac_level)
                     THEN Pow(Div(Sub(self.zodiac_level, Num(90)), Num(10)), Dec(25, 1))
                     ELSE One
      base_calc   == Div(Mul(Mul(Mul(Mul(Pow(Dec(1125, 3), self.zodiac_rarity),
                                         self.zodiac_quality),
                                     Add(Num(9), Pow(self.zodiac_level, Num(2)))),
                                 rarity_mult),
                             level_mult),
                         Num(10))
  IN  Mul(Pow(base_calc, Dec(75, 2)), Pow(Dec(11, 1), self.zodiac_rarity))

SalePriceFormula(self) ==
  LET rarity_mult == IF Less(Num(8), self.zodiac_rarity) THEN Num(2) ELSE One
      level_mult  == IF Leq(Num(100), self.zodiac_level)
                     THEN Pow(Div(Sub(self.zodiac_level, Num(90)), Num(10)), Dec(25, 1))
                     ELSE One
      base_calc   == Div(Mul(Mul(Mul(Mul(Pow(Dec(1125, 3), self.zodiac_rarity),
                                         self.zodiac_quality),
                                     Add(Num(9), Pow(self.zodiac_level, Num(2)))),
                                 rarity_mult),
                             level_mult),
                         Num(10))
  IN  Mul(Pow(base_calc, Dec(75, 2)), Pow(Dec(11, 1), self.zodiac_rarity))

calculate_zodiac_sale_price(self) ==
  IF ~_has_required_inputs(self, {"zodiac_rarity", "zodiac_quality", "zodiac_level"})
  THEN None
  ELSE IF self.zodiac_rarity = None \/ self.zodiac_quality = None \/ self.zodiac_level = None
  THEN Raise("AssertionError")
  ELSE OrNone(SalePriceFormula(self))

EnhancePriceFormula(self, sell_cost) ==
  Mul(Mul(sell_cost, Num(2)), Pow(Dec(13, 1), Log10(Add(One, self.zodiac_quality))))

\* the body of calculate_zodiac_enhance_price after its first statement
EnhancePriceOf(self, sell_cost) ==
  IF IsExc(sell_cost) THEN sell_cost
  ELSE IF sell_cost = None \/ ~_has_required_inputs(self, {"zodiac_quality"}) THEN None
  ELSE IF self.zodiac_quality = None THEN Raise("AssertionError")
  ELSE OrNone(EnhancePriceFormula(self, sell_cost))

calculate_zodiac_enhance_price(self) ==
  EnhancePriceOf(self, calculate_zodiac_sale_price(self))

EnhanceChanceFormula(self) ==
  Mul(Pow(Dec(9, 1), Pow(Log10(Add(One, self.zodiac_quality)), Num(2))), Num(100))

calculate_zodiac_enhance_chance(self) ==
  IF ~_has_required_inputs(self, {"zodiac_quality"}) THEN None
  ELSE IF self.zodiac_quality = None THEN Raise("AssertionError")
  ELSE OrNone(EnhanceChanceFormula(self))

ScoreFormula(self) ==
  LET rarity_mult == IF Less(Num(8), self.zodiac_rarity) THEN Num(2) ELSE One
      level_mult  == IF Leq(Num(100), self.zodiac_level)
                     THEN Pow(Div(Sub(self.zodiac_level, Num(90)), Num(10)), Dec(25, 1))
                     ELSE One
  IN  Mul(Mul(Mul(Mul(Pow(Dec(1125, 3), self.zodiac_rarity), self.zodiac_quality),
                  Add(Num(9), Pow(self.zodiac_level, Num(2)))),
              rarity_mult),
          level_mult)

calculate_zodiac_score(self) ==
  IF ~_has_required_inputs(self, {"zodiac_rarity", "zodiac_quality", "zodiac_level"})
  THEN None
  ELSE IF self.zodiac_rarity = None \/ self.zodiac_quality = None \/ self.zodiac_level = None
  THEN Raise("AssertionError")
  ELSE OrNone(ScoreFormula(self))

LuckFormula(self) ==
  IF Less(self.luck, Num(18)) THEN self.luck
  ELSE Mul(Pow(Sub(self.luck, Num(18)), Dec(3, 1)), Num(18))

calculate_zodiac_luck(self) ==
  IF ~_has_required_inputs(self, {"luck"}) THEN None
  ELSE IF self.luck = None THEN Raise("AssertionError")
  ELSE OrNone(LuckFormula(self))

----------------------------------------------------------------------------
(* The rarity model *)

TierOrder == <<"Garbage", "Common", "Uncommon", "Rare", "Epic", "Legendary",
               "Mythic", "Godly", "Divine", "Immortal">>

Tiers == {TierOrder[i] : i \in 1..Len(TierOrder)}

\* a <= zodiac_luck < b
InRange(L, a, b) == Leq(Num(a), L) /\ Less(L, Num(b))

GarbageWeight(L) ==
  IF InRange(L, 1, 2) THEN Mul(Num(5), Pow(Dec(8, 1), Sub(L, Num(1))))
  ELSE IF InRange(L, 2, 3)
       THEN Mul(Mul(Num(5), Pow(Dec(8, 1), Sub(L, Num(1)))), Pow(Dec(4, 1), Sub(L, Num(2))))
  ELSE Zero

CommonWeight(L) ==
  IF InRange(L, 1, 2) THEN Num(15)
  ELSE IF InRange(L, 2, 5) THEN Mul(Num(15), Pow(Dec(45, 2), Sub(L, Num(2))))
  ELSE Zero

UncommonWeight(L) ==
  IF InRange(L, 1, 3) THEN Sub(Mul(Num(20), Pow(Dec(15, 1), Sub(L, Num(1)))), Num(12))
  ELSE IF InRange(L, 3, 8)
       THEN Mul(Sub(Mul(Num(20), Pow(Dec(15, 1), Sub(L, Num(1)))), Num(12)),
                Pow(Dec(5, 1), Sub(L, Num(3))))
  ELSE Zero

RareWeight(L) ==
  IF InRange(L, 1, 5) THEN Sub(Mul(Num(30), Pow(Dec(145, 2), Sub(L, Num(1)))), Num(28))
  ELSE IF InRange(L, 5, 12)
       THEN Mul(Sub(Mul(Num(30), Pow(Dec(145, 2), Sub(L, Num(1)))), Num(28)),
                Pow(Dec(55, 2), Sub(L, Num(5))))
  ELSE Zero

EpicWeight(L) ==
  IF InRange(L, 1, 8)
  THEN Max0(Sub(Mul(Num(45), Pow(Dec(14, 1), Sub(L, Num(2)))), Num(50)))
  ELSE IF InRange(L, 8, 20)
       THEN Mul(Max0(Sub(Mul(Num(45), Pow(Dec(14, 1), Sub(L, Num(2)))), Num(50))),
                Pow(Dec(6, 1), Sub(L, Num(8))))
  ELSE Zero

LegendaryWeight(L) ==
  IF InRange(L, 1, 12)
  THEN Max0(Sub(Mul(Num(80), Pow(Dec(136, 2), Sub(L, Num(3)))), Num(100)))
  ELSE IF InRange(L, 12, 30)
       THEN Mul(Max0(Sub(Mul(Num(80), Pow(Dec(136, 2), Sub(L, Num(3)))), Num(100))),
                Pow(Dec(64, 2), Sub(L, Num(12))))
  ELSE Zero

MythicWeight(L) ==
  IF InRange(L, 1, 20)
  THEN Max0(Sub(Mul(Num(120), Pow(Dec(13, 1), Sub(L, Num(5)))), Num(140)))
  ELSE IF InRange(L, 20, 50)
       THEN Mul(Max0(Sub(Mul(Num(120), Pow(Dec(13, 1), Sub(L, Num(5)))), Num(140))),
                Pow(Dec(67, 2), Sub(L, Num(20))))
  ELSE Zero

\* variant of GodlyWeight (decay factor 0.9 in place of 0.7): C8 must tell it apart
GodlyWeightSlowDecay(L) ==
  IF InRange(L, 1, 30)
  THEN Max0(Sub(Mul(Num(150), Pow(Dec(125, 2), Sub(L, Num(8)))), Num(200)))
  ELSE IF InRange(L, 30, 60)
       THEN Mul(Max0(Sub(Mul(Num(150), Pow(Dec(125, 2), Sub(L, Num(8)))), Num(200))),
                Pow(Dec(9, 1), Sub(L, Num(30))))
  ELSE Zero

GodlyWeight(L) ==
  IF InRange(L, 1, 30)
  THEN Max0(Sub(Mul(Num(150), Pow(Dec(125, 2), Sub(L, Num(8)))), Num(200)))
  ELSE IF InRange(L, 30, 60)
       THEN Mul(Max0(Sub(Mul(Num(150), Pow(Dec(125, 2), Sub(L, Num(8)))), Num(200))),
                Pow(Dec(7, 1), Sub(L, Num(30))))
  ELSE Zero

DivineWeight(L) ==
  IF InRange(L, 1, 40)
  THEN Max0(Sub(Mul(Num(200), Pow(Dec(12, 1), Sub(L, Num(12)))), Num(300)))
  ELSE IF InRange(L, 40, 50)
       THEN Mul(Max0(Sub(Mul(Num(200), Pow(Dec(12, 1), Sub(L, Num(12)))), Num(300))),
                Pow(Dec(92, 2), Sub(L, Num(40))))
  ELSE IF InRange(L, 50, 70)
       THEN Mul(Mul(Max0(Sub(Mul(Num(200), Pow(Dec(12, 1), Sub(L, Num(12)))), Num(300))),
                    Pow(Dec(92, 2), Sub(L, Num(40)))),
                Pow(Dec(75, 2), Sub(L, Num(50))))
  ELSE Zero

\* variant of ImmortalWeight (the weight is not floored at zero after the
\* subtraction of 500 is dropped): C12 must tell it apart
ImmortalWeightUnfloored(L) ==
  Mul(Num(300), Pow(Dec(11, 1), Sub(L, Num(20))))

ImmortalWeight(L) ==
  Max0(Sub(Mul(Num(300), Pow(Dec(11, 1), Sub(L, Num(20)))), Num(500)))

\* the try block: the tiers are computed in order, each stored under its key
TierWeight(t, L) ==
  CASE t = "Garbage"   -> GarbageWeight(L)
    [] t = "Common"    -> CommonWeight(L)
    [] t = "Uncommon"  -> UncommonWeight(L)
    [] t = "Rare"      -> RareWeight(L)
    [] t = "Epic"      -> EpicWeight(L)
    [] t = "Legendary" -> LegendaryWeight(L)
    [] t = "Mythic"    -> MythicWeight(L)
    [] t = "Godly"     -> GodlyWeight(L)
    [] t = "Divine"    -> DivineWeight(L)
    [] t = "Immortal"  -> ImmortalWeight(L)

\* the index of the first tier whose computation raises ValueError or
\* OverflowError, 0 if none does
FirstRaising(computed) ==
  IF \E i \in 1..Len(TierOrder) : computed[TierOrder[i]].k \in Caught
  THEN CHOOSE i \in 1..Len(TierOrder) :
         /\ computed[TierOrder[i]].k \in Caught
         /\ \A j \in 1..(i - 1) : computed[TierOrder[j]].k \notin Caught
  ELSE 0

\* variant of WeightsOnError (the table as it stood when tier i raised): C6
\* must tell it apart
WeightsSoFar(computed, i) ==
  [t \in {TierOrder[j] : j \in 1..(i - 1)} |-> computed[t]]

\* the except branch of calculate_rarity_weights: what is returned once the
\* computation of tier number i has raised
WeightsOnError(computed, i) == [t \in Tiers |-> Zero]

\* the return statements of calculate_rarity_weights
WeightsReturn(computed) ==
  IF FirstRaising(computed) = 0 THEN computed
  ELSE WeightsOnError(computed, FirstRaising(computed))

calculate_rarity_weights(zodiac_luck) ==
  WeightsReturn([t \in Tiers |-> TierWeight(t, zodiac_luck)])

\* True when calculate_rarity_weights(zodiac_luck) logs its error
WeightsRaise(zodiac_luck) ==
  FirstRaising([t \in Tiers |-> TierWeight(t, zodiac_luck)]) # 0

\* sum(weights.values()): left to right in key order, starting from 0
RECURSIVE SumFrom(_, _, _)
SumFrom(weights, i, acc) ==
  IF i > Len(TierOrder) THEN acc
  ELSE IF TierOrder[i] \in DOMAIN weights
       THEN SumFrom(weights, i + 1, Add(acc, weights[TierOrder[i]]))
       ELSE SumFrom(weights, i + 1, acc)

TotalWeight(weights) == SumFrom(weights, 1, Zero)

\* the body of calculate_rarity_chances after its first statement
ChancesOf(weights, total_weight) ==
  IF Eq(total_weight, Zero) THEN [rarity \in DOMAIN weights |-> Zero]
  ELSE [rarity \in DOMAIN weights |-> Mul(Div(weights[rarity], total_weight), Num(100))]

calculate_rarity_chances(weights) == ChancesOf(weights, TotalWeight(weights))

----------------------------------------------------------------------------
(* display_results *)

\* bool(x) of a calculation result
Truthy(v) == v # None /\ v # Zero

\* _format_number: the presentation chosen for the number, or the exception
\* math.isinf raises for an argument that is not a real number
_format_number(number) ==
  IF ~IsReal(number) THEN "TypeError"
  ELSE IF number.k = "inf" THEN "Infinity"
  ELSE IF number.k = "nan" THEN "NaN"
  ELSE IF Leq(Fin(100000, 1), [number EXCEPT !.m = Abs(number.m)]) THEN ".2e"
  ELSE IF Leq(Num(1000), [number EXCEPT !.m = Abs(number.m)]) THEN ".2f"
  ELSE IF Leq(Num(1), [number EXCEPT !.m = Abs(number.m)]) THEN ".6f"
  ELSE ".8f"

Unset == Special("unset")

NoTable == [t \in {} |-> Zero]

\* the exception the basic block of display_results raises, "none" if none:
\* one raised by a calculation, or by _format_number in the order of the prints
BasicRaised(sale, ep, ec, score) ==
  IF IsExc(sale) THEN sale.k
  ELSE IF IsExc(ep) THEN ep.k
  ELSE IF IsExc(ec) THEN ec.k
  ELSE IF IsExc(score) THEN score.k
  ELSE IF ~(Truthy(sale) \/ Truthy(ep) \/ Truthy(ec) \/ Truthy(score)) THEN "none"
  ELSE IF sale # None /\ _format_number(sale) = "TypeError" THEN "TypeError"
  ELSE IF ep # None /\ _format_number(ep) = "TypeError" THEN "TypeError"
  ELSE IF score # None /\ _format_number(score) = "TypeError" THEN "TypeError"
  ELSE "none"

\* the lines the basic block of display_results prints before it returns or
\* raises: a value that _format_number rejects ends the block at its line
BasicLines(sale, ep, ec, score) ==
  IF IsExc(sale) \/ IsExc(ep) \/ IsExc(ec) \/ IsExc(score) THEN <<>>
  ELSE IF ~(Truthy(sale) \/ Truthy(ep) \/ Truthy(ec) \/ Truthy(score)) THEN <<>>
  ELSE <<"Basic Zodiac Calculations">>
       \o (IF sale # None /\ _format_number(sale) = "TypeError" THEN <<>>
           ELSE (IF sale # None THEN <<"Zodiac Sale Price">> ELSE <<>>)
                \o (IF ep # None /\ _format_number(ep) = "TypeError" THEN <<>>
                    ELSE (IF ep # None THEN <<"Zodiac Enhance Price">> ELSE <<>>)
                         \o (IF ec # None THEN <<"Zodiac Enhance Chance">> ELSE <<>>)
                         \o (IF score # None /\ _format_number(score) # "TypeError"
                             THEN <<"Zodiac Score">> ELSE <<>>)))

\* the lines of the rarity block and of the closing message
RarityLines(sale, ep, ec, score, zl) ==
  IF zl # None THEN <<"Rarity Analysis">>
  ELSE IF ~(Truthy(sale) \/ Truthy(ep) \/ Truthy(ec) \/ Truthy(score))
  THEN <<"No calculations could be performed with the provided inputs.">>
  ELSE <<>>

----------------------------------------------------------------------------
(* The interactive session: get_user_input, run and the program entry *)

\* variant of InputOutcome (a rejected line is skipped): C3 must tell it apart
InputOutcomeLenient(text) ==
  IF text = <<>> THEN "skip"
  ELSE IF ParseFloat(text).k = "ValueError" THEN "skip"
  ELSE "set"

\* what one prompt of get_user_input does with the stripped line it read:
\* leave the field alone, store the parsed number, or (ValueError) give up
InputOutcome(text) ==
  IF text = <<>> THEN "skip"
  ELSE IF ParseFloat(text).k = "ValueError" THEN "abort"
  ELSE "set"

\* variant of ChoiceContinues (the answer is not lowered): C10 must tell it apart
ChoiceContinuesCaseSensitive(line) ==
  Strip(line) \in {<<"y">>, <<"y", "e", "s">>}

\* choice not in ("y", "yes") breaks the loop
ChoiceContinues(line) ==
  Strip(Lower(line)) \in {<<"y">>, <<"y", "e", "s">>}

\* variant of RunHandler (no clause of its own for KeyboardInterrupt, which then
\* reaches the last clause and is raised again): C11 must tell it apart
RunHandlerNoInterruptClause(exc) ==
  IF exc \in {"ValueError", "TypeError", "AttributeError"}
  THEN [next |-> "continue",
        out  |-> <<"An input or calculation error occurred",
                   "Please check your inputs and try again.">>]
  ELSE [next |-> IF exc \in {"SystemExit", "KeyboardInterrupt", "SystemError"}
                 THEN "reraise" ELSE "continue",
        out  |-> <<"An unexpected error occurred">>]

\* the except clauses of run, in order: what is printed and how the loop goes on
RunHandler(exc) ==
  IF exc = "KeyboardInterrupt"
  THEN [next |-> "break", out |-> <<"Program interrupted by user.">>]
  ELSE IF exc \in {"ValueError", "TypeError", "AttributeError"}
  THEN [next |-> "continue",
        out  |-> <<"An input or calculation error occurred",
                   "Please check your inputs and try again.">>]
  ELSE [next |-> IF exc \in {"SystemExit", "KeyboardInterrupt", "SystemError"}
                 THEN "reraise" ELSE "continue",
        out  |-> <<"An unexpected error occurred">>]

Farewell == "Thank you for using the Revolution Idle Zodiac Calculator!"

----------------------------------------------------------------------------
(* State *)

VARIABLES
  self,             \* the calculator object: the five optional inputs
  pc,               \* where the program is: the field being prompted for,
                    \* "display", "choice", "done" (run returned), "raised"
  typed,            \* the stripped lines get_user_input has read this round
  inputs_provided,  \* the counter of get_user_input
  line,             \* the line the last input() call returned
  round,            \* number of input rounds started
  out,              \* what the last step printed
  farewells,        \* how many times the farewell line was printed
  weights_error,    \* the last calculate_rarity_weights logged its error
  sale_price, enhance_price, enhance_chance, zodiac_score,
  zodiac_luck,      \* the results of the last calculation (Unset before it);
  weights, chances, \* zodiac_luck is also the argument of the rarity model
  other_luck, other_weights  \* a second argument and its weight table

vars == <<self, pc, typed, inputs_provided, line, round, out, farewells, weights_error,
          sale_price, enhance_price, enhance_chance, zodiac_score, zodiac_luck,
          weights, chances, other_luck, other_weights>>

results == <<sale_price, enhance_price, enhance_chance, zodiac_score, zodiac_luck,
             weights, chances, weights_error>>

session == <<pc, typed, inputs_provided, line, round, out, farewells>>

NoTyped == [f \in {} |-> <<>>]

ResultsUnset ==
  /\ sale_price = Unset /\ enhance_price = Unset /\ enhance_chance = Unset
  /\ zodiac_score = Unset /\ zodiac_luck = Unset
  /\ weights = NoTable /\ chances = NoTable /\ weights_error = FALSE

ClearResults ==
  /\ sale_price' = Unset /\ enhance_price' = Unset /\ enhance_chance' = Unset
  /\ zodiac_score' = Unset /\ zodiac_luck' = Unset
  /\ weights' = NoTable /\ chances' = NoTable /\ weights_error' = FALSE

----------------------------------------------------------------------------
(* Bounds and sample inputs *)

MaxRounds == 2

\* lines typed at a field prompt: nothing, a word, a negative and a positive number
FieldTexts == {<<>>, <<"a", "b", "c">>, <<"-", "1">>, <<"9">>}

\* lines typed at the "Calculate again?" prompt
ChoiceTexts == {<<"y">>, <<" ", "Y", "e", "s", " ">>, <<"n">>, <<>>, <<"y", "e", "p">>}

----------------------------------------------------------------------------
(* Spec: the interactive session *)

Init ==
  /\ self = NoInputs
  /\ pc = FieldOrder[1]
  /\ typed = NoTyped
  /\ inputs_provided = 0
  /\ line = <<>>
  /\ round = 1
  /\ out = <<>>
  /\ farewells = 0
  /\ ResultsUnset
  /\ other_luck = Unset
  /\ other_weights = NoTable

FieldIndex(f) == CHOOSE i \in 1..Len(FieldOrder) : FieldOrder[i] = f

\* the next iteration of the while loop of run: get_user_input starts over
NextIteration ==
  /\ round < MaxRounds
  /\ round' = round + 1
  /\ pc' = FieldOrder[1]
  /\ typed' = NoTyped
  /\ inputs_provided' = 0
  /\ ClearResults

\* the loop is left: the farewell line, and run returns
LeaveLoop(printed) ==
  /\ pc' = "done"
  /\ out' = printed \o <<Farewell>>
  /\ farewells' = farewells + 1
  /\ UNCHANGED <<typed, inputs_provided, round, results>>

\* an exception reaches the try statement of run after the step has printed
\* some lines; h is what its handler does
Handled(h, printed) ==
  /\ UNCHANGED <<self, other_luck, other_weights>>
  /\ IF h.next = "break" THEN LeaveLoop(printed \o h.out)
     ELSE IF h.next = "continue"
     THEN /\ NextIteration
          /\ out' = printed \o h.out
          /\ UNCHANGED farewells
     ELSE /\ pc' = "raised"
          /\ out' = printed \o h.out \o <<"A fatal error occurred">>
          /\ UNCHANGED <<typed, inputs_provided, round, farewells, results>>

Handle(exc, printed) == Handled(RunHandler(exc), printed)

\* One prompt of get_user_input, with the outcome of the line read
PromptStep(text, outcome) ==
  /\ self' = IF outcome = "set" THEN [self EXCEPT ![pc] = ParseFloat(text)] ELSE self
  /\ inputs_provided' = IF outcome = "set" THEN inputs_provided + 1 ELSE inputs_provided
  /\ IF outcome = "abort"
     THEN /\ pc' = "choice"
          /\ out' = <<"Error: Please enter valid numbers.",
                      "Please try again with valid inputs.">>
     ELSE IF FieldIndex(pc) < Len(FieldOrder)
     THEN /\ pc' = FieldOrder[FieldIndex(pc) + 1]
          /\ out' = <<>>
     ELSE IF inputs_provided' = 0
     THEN /\ pc' = "choice"
          /\ out' = <<"No inputs provided.", "Please try again with valid inputs.">>
     ELSE /\ pc' = "display"
          /\ out' = <<>>

\* One prompt of get_user_input: the user types a line at the prompt for pc.
Prompt(typedLine) ==
  /\ pc \in Fields
  /\ line' = typedLine
  /\ typed' = typed @@ (pc :> Strip(typedLine))
  /\ UNCHANGED <<round, farewells, results, other_luck, other_weights>>
  /\ PromptStep(Strip(typedLine), InputOutcome(Strip(typedLine)))

\* display_results runs to its end: the values it computed and what it printed
Displayed(sale, ep, ec, score, zl, w, c) ==
  /\ pc' = "choice"
  /\ out' = <<"CALCULATION RESULTS">> \o BasicLines(sale, ep, ec, score)
             \o RarityLines(sale, ep, ec, score, zl)
  /\ sale_price' = sale
  /\ enhance_price' = ep
  /\ enhance_chance' = ec
  /\ zodiac_score' = score
  /\ zodiac_luck' = zl
  /\ weights' = w
  /\ chances' = c
  /\ weights_error' = (zl # None /\ WeightsRaise(zl))
  /\ UNCHANGED <<self, typed, inputs_provided, round, farewells, other_luck, other_weights>>

\* the rarity block of display_results
RarityBlock(sale, ep, ec, score, zl) ==
  \E w \in {IF zl # None THEN calculate_rarity_weights(zl) ELSE NoTable} :
    \E c \in {IF zl # None THEN calculate_rarity_chances(w) ELSE NoTable} :
      Displayed(sale, ep, ec, score, zl, w, c)

\* the basic block of display_results: it raises into the handlers of run, or
\* goes on to the rarity block
BasicBlock(sale, ep, ec, score) ==
  \E raised \in {BasicRaised(sale, ep, ec, score)} :
    IF raised # "none"
    THEN Handle(raised, <<"CALCULATION RESULTS">> \o BasicLines(sale, ep, ec, score))
    ELSE \E zl \in {calculate_zodiac_luck(self)} : RarityBlock(sale, ep, ec, score, zl)

\* display_results, from the four basic calculations on
Display ==
  /\ pc = "display"
  /\ UNCHANGED line
  /\ \E sale \in {calculate_zodiac_sale_price(self)},
        ep \in {calculate_zodiac_enhance_price(self)},
        ec \in {calculate_zodiac_enhance_chance(self)},
        score \in {calculate_zodiac_score(self)} :
       BasicBlock(sale, ep, ec, score)

\* The answer to "Calculate again? (y/n)"
Choice(text) ==
  /\ pc = "choice"
  /\ line' = text
  /\ UNCHANGED <<other_luck, other_weights>>
  /\ IF ChoiceContinues(text)
     THEN /\ self' = NoInputs
          /\ NextIteration
          /\ out' = <<>>
          /\ UNCHANGED farewells
     ELSE /\ LeaveLoop(<<>>)
          /\ UNCHANGED self

\* input() meets the end of the input
EndOfInput ==
  /\ pc \in Fields \cup {"choice"}
  /\ Handle("EOFError", <<>>)
  /\ UNCHANGED line

\* the user interrupts the program
Interrupt ==
  /\ pc \in Fields \cup {"display", "choice"}
  /\ Handle("KeyboardInterrupt", <<>>)
  /\ UNCHANGED line

\* the interpreter fails inside the loop (SystemError)
Fault ==
  /\ pc \in Fields \cup {"display", "choice"}
  /\ Handle("SystemError", <<>>)
  /\ UNCHANGED line

Next ==
  \/ \E text \in FieldTexts : Prompt(text)
  \/ Display
  \/ \E text \in ChoiceTexts : Choice(text)
  \/ EndOfInput
  \/ Interrupt
  \/ Fault

Spec == Init /\ [][Next]_vars

----------------------------------------------------------------------------
(* SpecCalc: the five calculations as functions of the calculator's fields *)

\* values a field may hold after get_user_input: absent, or a parsed number
RaritySamples == {None, Num(1), Num(9), Num(7000)}

QualitySamples == {None, Num(10), Neg(Dec(5, 1)), Neg(Num(1))}

LevelSamples == {None, Num(1), Num(50), Num(110)}

LuckSamples == {None, Num(17), Num(18), Num(19), Num(1042), Fin(520000, 3), Inf(1), NaN}

InitCalc ==
  /\ self \in [zodiac_rarity : RaritySamples, zodiac_quality : QualitySamples,
               zodiac_level : LevelSamples, luck : LuckSamples, immo_number : {None}]
  /\ pc = "calc"
  /\ typed = NoTyped
  /\ inputs_provided = 0
  /\ line = <<>>
  /\ round = 1
  /\ out = <<>>
  /\ farewells = 0
  /\ ResultsUnset
  /\ other_luck = Unset
  /\ other_weights = NoTable

CalcSalePrice ==
  /\ pc = "calc" /\ sale_price = Unset
  /\ sale_price' = calculate_zodiac_sale_price(self)
  /\ UNCHANGED <<self, session, enhance_price, enhance_chance, zodiac_score, zodiac_luck,
                 weights, chances, weights_error, other_luck, other_weights>>

CalcEnhancePrice ==
  /\ pc = "calc" /\ enhance_price = Unset
  /\ enhance_price' = calculate_zodiac_enhance_price(self)
  /\ UNCHANGED <<self, session, sale_price, enhance_chance, zodiac_score, zodiac_luck,
                 weights, chances, weights_error, other_luck, other_weights>>

CalcEnhanceChance ==
  /\ pc = "calc" /\ enhance_chance = Unset
  /\ enhance_chance' = calculate_zodiac_enhance_chance(self)
  /\ UNCHANGED <<self, session, sale_price, enhance_price, zodiac_score, zodiac_luck,
                 weights, chances, weights_error, other_luck, other_weights>>

CalcScore ==
  /\ pc = "calc" /\ zodiac_score = Unset
  /\ zodiac_score' = calculate_zodiac_score(self)
  /\ UNCHANGED <<self, session, sale_price, enhance_price, enhance_chance, zodiac_luck,
                 weights, chances, weights_error, other_luck, other_weights>>

CalcLuck ==
  /\ pc = "calc" /\ zodiac_luck = Unset
  /\ zodiac_luck' = calculate_zodiac_luck(self)
  /\ UNCHANGED <<self, session, sale_price, enhance_price, enhance_chance, zodiac_score,
                 weights, chances, weights_error, other_luck, other_weights>>

NextCalc ==
  \/ CalcSalePrice
  \/ CalcEnhancePrice
  \/ CalcEnhanceChance
  \/ CalcScore
  \/ CalcLuck

SpecCalc == InitCalc /\ [][NextCalc]_vars

----------------------------------------------------------------------------
(* SpecRarity: calculate_rarity_weights and calculate_rarity_chances *)

\* the grid of zodiac luck values runs from 0 to MaxLuck in steps of one half
MaxLuck == 144

LuckGrid == {IF n = 0 THEN Zero ELSE Dec(5 * n, 1) : n \in 0..MaxLuck}

\* arguments off the grid: the Immortal weight overflows to an infinity, the
\* power raises OverflowError, an infinity and a NaN
LuckExtremes == {Num(7437), Num(7480), Fin(100000, 1), Inf(1), NaN}

InitRarity ==
  /\ zodiac_luck \in LuckGrid \cup LuckExtremes
  /\ other_luck \in {L \in LuckGrid : Less(zodiac_luck, L)} \cup {Unset}
  /\ pc = "rarity"
  /\ self = NoInputs
  /\ typed = NoTyped
  /\ inputs_provided = 0
  /\ line = <<>>
  /\ round = 1
  /\ out = <<>>
  /\ farewells = 0
  /\ sale_price = Unset /\ enhance_price = Unset /\ enhance_chance = Unset
  /\ zodiac_score = Unset
  /\ weights = NoTable /\ chances = NoTable /\ weights_error = FALSE
  /\ other_weights = NoTable

\* calculate_rarity_weights(zodiac_luck), and the same call for other_luck
CalcWeights ==
  /\ pc = "rarity" /\ weights = NoTable
  /\ weights' = calculate_rarity_weights(zodiac_luck)
  /\ weights_error' = WeightsRaise(zodiac_luck)
  /\ other_weights' = IF other_luck = Unset THEN NoTable
                      ELSE calculate_rarity_weights(other_luck)
  /\ UNCHANGED <<self, session, sale_price, enhance_price, enhance_chance, zodiac_score,
                 zodiac_luck, chances, other_luck>>

\* calculate_rarity_chances(weights)
CalcChances ==
  /\ pc = "rarity" /\ weights # NoTable /\ chances = NoTable
  /\ chances' = calculate_rarity_chances(weights)
  /\ UNCHANGED <<self, session, sale_price, enhance_price, enhance_chance, zodiac_score,
                 zodiac_luck, weights, weights_error, other_luck, other_weights>>

NextRarity ==
  \/ CalcWeights
  \/ CalcChances

SpecRarity == InitRarity /\ [][NextRarity]_vars

----------------------------------------------------------------------------
(* SpecLuck: the rarity analysis of display_results as a function of luck *)

\* values of the luck field: the half-step grid, values below zero, just below
\* one and just above the soft cap threshold, and the special floats
LuckInputs ==
  LuckGrid \cup {Neg(Num(1)), Neg(Dec(5, 1)), Neg(Num(7000)), Neg(Fin(100000, 1)),
                 Dec(99, 2), Dec(180001, 4), Num(1042), Inf(-1), Inf(1), NaN, None}

InitLuck ==
  /\ self \in [zodiac_rarity : {None}, zodiac_quality : {None}, zodiac_level : {None},
               luck : LuckInputs, immo_number : {None}]
  /\ pc = "luck"
  /\ typed = NoTyped
  /\ inputs_provided = 0
  /\ line = <<>>
  /\ round = 1
  /\ out = <<>>
  /\ farewells = 0
  /\ ResultsUnset
  /\ other_luck = Unset
  /\ other_weights = NoTable

\* zodiac_luck = self.calculate_zodiac_luck(); the rarity analysis follows only
\* if zodiac_luck is not None
LuckTransform ==
  /\ pc = "luck"
  /\ \E zl \in {calculate_zodiac_luck(self)} :
       /\ zodiac_luck' = zl
       /\ pc' = IF zl # None THEN "rarity" ELSE "norarity"
  /\ UNCHANGED <<self, typed, inputs_provided, line, round, out, farewells,
                 sale_price, enhance_price, enhance_chance, zodiac_score,
                 weights, chances, weights_error, other_luck, other_weights>>

NextLuck ==
  \/ LuckTransform
  \/ CalcWeights
  \/ CalcChances

SpecLuck == InitLuck /\ [][NextLuck]_vars

----------------------------------------------------------------------------
(* Claims about the interactive session (Spec) *)

Contains(lines, l) == \E i \in 1..Len(lines) : lines[i] = l

\* C1: every round starts with all five fields absent, also after a round that
\* ended in an error: when the calculations of a round are made, a field the
\* user skipped in that round is absent.
C1_SkippedFieldIsAbsent ==
  pc = "display" =>
    \A f \in Fields : (f \in DOMAIN typed /\ typed[f] = <<>>) => self[f] = None

\* C2: when the handler of unexpected errors has printed its line, the process
\* exits: the loop does not go on to another input round.
C2_UnexpectedErrorExits ==
  [][Contains(out', "An unexpected error occurred") => pc' \in {"raised", "done"}]_vars

\* C3: a non-empty line that float() rejects aborts the round: the fields set
\* before it stay as they are, nothing is calculated or displayed, the two
\* error lines are printed and the next prompt is "Calculate again?".
C3_MalformedInputAbortsRound ==
  [][(/\ pc \in Fields
      /\ pc \in DOMAIN typed'
      /\ typed'[pc] # <<>>
      /\ ParseFloat(typed'[pc]).k = "ValueError")
     => (/\ pc' = "choice"
         /\ self' = self
         /\ ResultsUnset'
         /\ out' = <<"Error: Please enter valid numbers.",
                     "Please try again with valid inputs.">>)]_vars

\* a round aborted at a later field, after an earlier field was parsed
C3_Witness ==
  /\ pc = "choice"
  /\ Contains(out, "Error: Please enter valid numbers.")
  /\ inputs_provided > 0
  /\ self # NoInputs
  /\ ResultsUnset

\* the raw lines of ChoiceTexts that read "y" or "yes" once lowered and stripped
Affirmative == {<<"y">>, <<" ", "Y", "e", "s", " ">>}

\* C10: display_results returning, a failed input and an empty input all lead
\* to the "Calculate again?" prompt; there an answer other than y/yes prints
\* the farewell and ends the session for good, and y/yes starts a new round.
C10_CalculateAgain ==
  [][/\ (pc = "display" /\ Contains(out', "CALCULATION RESULTS")
           /\ ~Contains(out', "An input or calculation error occurred"))
        => pc' = "choice"
     /\ Contains(out', "Please try again with valid inputs.") => pc' = "choice"
     /\ (pc = "choice" /\ out' \in {<<>>, <<Farewell>>})
        => IF line' \in Affirmative
           THEN pc' = FieldOrder[1] /\ round' = round + 1 /\ farewells' = farewells
           ELSE pc' = "done" /\ out' = <<Farewell>> /\ farewells' = farewells + 1
     /\ pc = "done" => pc' = "done"]_vars

\* a session of two rounds: "Yes" after the first, "n" after the second
C10_Witness ==
  /\ pc = "done"
  /\ round = 2
  /\ line = <<"n">>
  /\ out = <<Farewell>>
  /\ farewells = 1

----------------------------------------------------------------------------
(* Claims about the calculations (SpecCalc) *)

Basic == {"zodiac_rarity", "zodiac_quality", "zodiac_level"}

\* C4: a calculation whose required field is absent yields None, and no
\* calculation raises: score and sale price need rarity, quality and level,
\* enhance chance needs quality, enhance price needs quality and a sale
\* price, zodiac luck needs luck.
C4_AbsentInputsSkip ==
  /\ \A v \in {sale_price, enhance_price, enhance_chance, zodiac_score, zodiac_luck} :
       ~IsExc(v)
  /\ (sale_price # Unset /\ \E f \in Basic : self[f] = None) => sale_price = None
  /\ (zodiac_score # Unset /\ \E f \in Basic : self[f] = None) => zodiac_score = None
  /\ (enhance_chance # Unset /\ self.zodiac_quality = None) => enhance_chance = None
  /\ (enhance_price # Unset /\ self.zodiac_quality = None) => enhance_price = None
  /\ (enhance_price # Unset /\ \E f \in Basic : self[f] = None) => enhance_price = None
  /\ (enhance_price # Unset /\ sale_price = None) => enhance_price = None
  /\ (zodiac_luck # Unset /\ self.luck = None) => zodiac_luck = None

\* level is absent: sale price, score and enhance price are None, while
\* enhance chance and zodiac luck are available
C4_Witness ==
  /\ self.zodiac_rarity # None /\ self.zodiac_quality = Num(10)
  /\ self.zodiac_level = None /\ self.luck = Num(19)
  /\ sale_price = None /\ zodiac_score = None /\ enhance_price = None
  /\ IsReal(enhance_chance) /\ IsReal(zodiac_luck)

\* C5: a calculation returns a real number or None: a numeric failure inside
\* a formula is never returned as a value that is not a real number.
C5_ResultsAreRealOrNone ==
  \A v \in {sale_price, enhance_price, enhance_chance, zodiac_score, zodiac_luck} :
    v = Unset \/ v = None \/ IsReal(v)

\* C9: score and sale price are None together when one of rarity, quality and
\* level is absent; when both are available the sale price is
\* (score / 10) ** 0.75 * 1.1 ** rarity.
C9_SalePriceFromScore ==
  (sale_price # Unset /\ zodiac_score # Unset) =>
    /\ (\E f \in Basic : self[f] = None) => (sale_price = None /\ zodiac_score = None)
    /\ (sale_price # None /\ zodiac_score # None) =>
         sale_price = Mul(Pow(Div(zodiac_score, Num(10)), Dec(75, 2)),
                          Pow(Dec(11, 1), self.zodiac_rarity))

\* rarity above 8 and level above 100: both multipliers are at work
C9_Witness ==
  /\ self.zodiac_rarity = Num(9) /\ self.zodiac_quality = Num(10)
  /\ self.zodiac_level = Num(110)
  /\ sale_price.k = "fin" /\ zodiac_score.k = "fin"
  /\ Less(Zero, sale_price)

----------------------------------------------------------------------------
(* Claims about the rarity model (SpecRarity) *)

TenTiers == {"Garbage", "Common", "Uncommon", "Rare", "Epic", "Legendary", "Mythic",
             "Godly", "Divine", "Immortal"}

\* C6: calculate_rarity_weights returns a table with exactly the ten tier
\* keys, and when its computation raised, every weight of the table is zero.
C6_TenKeysAllZeroOnError ==
  weights # NoTable =>
    /\ DOMAIN weights = TenTiers
    /\ weights_error => \A t \in TenTiers : weights[t] = Zero

\* the power of the last tier, Immortal, overflows
C6_Witness ==
  /\ zodiac_luck = Num(7480)
  /\ weights_error
  /\ DOMAIN weights = TenTiers
  /\ \A t \in TenTiers : weights[t] = Zero

\* s is 100 within the tolerance of the arithmetic
Near100(s) == Leq(Dec(9999, 2), s) /\ Leq(s, Dec(10001, 2))

\* C7: the chances have the keys of the weights, each is weight / total * 100,
\* they sum to 100 when the total weight is above 0 and are all 0 when it is 0.
C7_ChancesSumTo100 ==
  chances # NoTable =>
    /\ DOMAIN chances = DOMAIN weights
    /\ Less(Zero, TotalWeight(weights)) =>
         /\ \A t \in DOMAIN weights :
              chances[t] = Mul(Div(weights[t], TotalWeight(weights)), Num(100))
         /\ Near100(TotalWeight(chances))
    /\ Eq(TotalWeight(weights), Zero) => \A t \in DOMAIN weights : chances[t] = Zero

GatedTiers == TenTiers \ {"Immortal"}

\* the end of the rise range of a gated tier: where its first decay factor sets in
FirstDecayBreakpoint(t) ==
  CASE t = "Garbage"   -> 2
    [] t = "Common"    -> 2
    [] t = "Uncommon"  -> 3
    [] t = "Rare"      -> 5
    [] t = "Epic"      -> 8
    [] t = "Legendary" -> 12
    [] t = "Mythic"    -> 20
    [] t = "Godly"     -> 30
    [] t = "Divine"    -> 40

\* where the second decay factor of Divine sets in
SecondDivineBreakpoint == 50

\* the weight of tier t does not grow from zodiac_luck to other_luck when
\* both are at or beyond b
NoGrowthFrom(t, b) ==
  (other_weights # NoTable /\ Leq(Num(b), zodiac_luck) /\ Less(zodiac_luck, other_luck))
    => Leq(other_weights[t], weights[t])

\* C8: for L1 < L2 both at or beyond the first decay breakpoint of a tier from
\* Garbage to Godly, weight(L2) <= weight(L1); for Divine the same holds from
\* its second breakpoint, 50, on.
C8_DecayBeyondBreakpoint ==
  \A t \in GatedTiers :
    NoGrowthFrom(t, IF t = "Divine" THEN SecondDivineBreakpoint ELSE FirstDecayBreakpoint(t))

\* Divine at 50 and at 60: the weight has decayed and is not yet zero
C8_Witness ==
  /\ other_weights # NoTable
  /\ zodiac_luck = Num(50) /\ other_luck = Num(60)
  /\ Less(Zero, other_weights["Divine"])
  /\ Less(other_weights["Divine"], weights["Divine"])

\* C8 as stated: for every gated tier, Divine included, weight(L2) <= weight(L1)
\* for L1 < L2 both at or beyond the first decay breakpoint of the tier.
C8_DecayFromFirstBreakpoint ==
  \A t \in GatedTiers : NoGrowthFrom(t, FirstDecayBreakpoint(t))

----------------------------------------------------------------------------
(* C11 *)

\* the points of a round at which the user can interrupt the session
InterruptPoints == Fields \cup {"display", "choice"}

\* C11: a user interruption while a field is entered, while the results are
\* displayed or at the repeat prompt leaves the loop: the interruption line and
\* the farewell are printed, the farewell exactly once in the whole session, run
\* returns (no exception escapes it), and once run has returned no further step,
\* in particular no further input, happens.
C11_InterruptEndsSession ==
  [][/\ Interrupt =>
          /\ pc \in InterruptPoints
          /\ pc' = "done"
          /\ out' = <<"Program interrupted by user.", Farewell>>
          /\ farewells = 0 /\ farewells' = 1
     /\ pc = "done" => FALSE]_vars

\* the session was interrupted in its second round, in the middle of the
\* field prompts, and run has returned
C11_Witness ==
  /\ pc = "done"
  /\ Contains(out, "Program interrupted by user.")
  /\ farewells = 1
  /\ round = 2
  /\ DOMAIN typed # {} /\ DOMAIN typed # Fields

----------------------------------------------------------------------------
(* C12 *)

\* zodiac luck below 1 (an ordered comparison: false for a NaN)
BelowOne(L) == IsReal(L) /\ Less(L, Num(1))

\* C12: the luck transform returns luck unchanged when luck < 18 and
\* (luck - 18) ^ 0.3 * 18 otherwise, so luck = 18 gives zodiac luck 0; for
\* every zodiac luck below 1 all ten weights, the Immortal one included, are
\* zero, the total weight is zero and every rarity chance is zero.
C12_LuckBelowOneGivesNoRarity ==
  /\ (zodiac_luck # Unset /\ self.luck # None) =>
       /\ Less(self.luck, Num(18)) => zodiac_luck = self.luck
       /\ ~Less(self.luck, Num(18)) =>
            zodiac_luck = Mul(Pow(Sub(self.luck, Num(18)), Dec(3, 1)), Num(18))
       /\ self.luck = Num(18) => zodiac_luck = Zero
       /\ Less(self.luck, Num(1)) => BelowOne(zodiac_luck)
  /\ (weights # NoTable /\ BelowOne(zodiac_luck)) =>
       /\ DOMAIN weights = TenTiers
       /\ \A t \in TenTiers : weights[t] = Zero
       /\ TotalWeight(weights) = Zero
       /\ ~weights_error
  /\ (chances # NoTable /\ BelowOne(zodiac_luck)) =>
       /\ DOMAIN chances = TenTiers
       /\ \A t \in TenTiers : chances[t] = Zero

\* luck 18 was transformed to zodiac luck 0 and the weights and the chances
\* were computed from it
C12_Witness ==
  /\ self.luck = Num(18)
  /\ zodiac_luck = Zero
  /\ weights # NoTable
  /\ chances # NoTable

====
